---------------------------- MODULE Spec2Model ----------------------------
(***************************************************************************)
(* A model of the chunking subsystem of CodeRAG (src/code_rag/chunking.py):*)
(* the import of the module (TS_LIB_PATH, TS_LANGS), detect_language,      *)
(* chunk_code, chunk_markdown, chunk_text, chunk_file and chunk_codebase.  *)
(*                                                                         *)
(* Text.  A Python str is modelled as a sequence of atoms.  An atom        *)
(* [c |-> x, n |-> k] denotes the character x written k times with single  *)
(* blanks in between ("a a a" for k = 3); with k = 1 it is the character   *)
(* x itself.  Only letters are repeated, so an atom with k > 1 is a run of *)
(* k one-letter words holding no line break.  The encoding is lossless; it *)
(* lets documents of more than 400 words and previews of more than 2000    *)
(* characters be written down with the program's own constants.  Every     *)
(* string operator below is computed on the denoted string.                *)
(*                                                                         *)
(* The alphabet holds the blank and the line feed as its white space, the  *)
(* line feed as its only line boundary, one two-byte character (e-acute)   *)
(* and one lone surrogate, which bytes(content, "utf8") cannot encode.     *)
(*                                                                         *)
(* Not modelled: extract_dependencies and _safe_name_for (the values of    *)
(* the "dependencies" and "symbol_name" fields of definition chunks).      *)
(***************************************************************************)
EXTENDS Integers, Sequences, FiniteSets, TLC

\* ------------------------------------------------------------------ text

Ch(x) == [c |-> x, n |-> 1]

Run(x, k) == [c |-> x, n |-> k]

S(t) == [i \in 1..Len(t) |-> Ch(t[i])]

NL == "\n"

EACUTE == "e'"

SURROGATE == "\\ud800"

WhiteSpace == {" ", NL}

IsSpace(a) == a.c \in WhiteSpace

Max2(a, b) == IF a >= b THEN a ELSE b

Min2(a, b) == IF a <= b THEN a ELSE b

MinOf(set) == CHOOSE x \in set : \A y \in set : x <= y

MaxOf(set) == CHOOSE x \in set : \A y \in set : x >= y

\* content[a:b] for 0 <= a, b on a string all of whose atoms are single
\* characters, in Python's 0-based, end-exclusive, clamped convention
Slice(s, a, b) == SubSeq(s, Min2(a, Len(s)) + 1, Min2(b, Len(s)))

\* len(atom) in characters
AtomLen(a) == 2 * a.n - 1

\* Long strings are folded by halving, which keeps the evaluation shallow.
RECURSIVE StrLenIn(_, _, _)
StrLenIn(s, lo, hi) ==
    IF lo > hi THEN 0
    ELSE IF lo = hi THEN AtomLen(s[lo])
    ELSE LET mid == (lo + hi) \div 2
         IN  StrLenIn(s, lo, mid) + StrLenIn(s, mid + 1, hi)

\* len(s)
StrLen(s) == StrLenIn(s, 1, Len(s))

\* the first k characters of one atom
AtomPrefix(a, k) ==
    IF k >= AtomLen(a) THEN <<a>>
    ELSE IF k <= 0 THEN <<>>
    ELSE IF k % 2 = 1 THEN <<Run(a.c, (k + 1) \div 2)>>
    ELSE <<Run(a.c, k \div 2), Ch(" ")>>

RECURSIVE PrefixIn(_, _, _, _)
PrefixIn(s, lo, hi, k) ==
    IF lo > hi \/ k <= 0 THEN <<>>
    ELSE IF lo = hi THEN AtomPrefix(s[lo], k)
    ELSE LET mid == (lo + hi) \div 2
             left == StrLenIn(s, lo, mid)
         IN  IF k <= left THEN PrefixIn(s, lo, mid, k)
             ELSE SubSeq(s, lo, mid) \o PrefixIn(s, mid + 1, hi, k - left)

\* s[:k]
Prefix(s, k) == PrefixIn(s, 1, Len(s), k)

\* str.strip()
Strip(s) ==
    LET keep == {i \in 1..Len(s) : ~IsSpace(s[i])}
    IN  IF keep = {} THEN <<>> ELSE SubSeq(s, MinOf(keep), MaxOf(keep))

\* len(s.split()): adjacent atoms that are not white space form one word
WordCountAt(s, i) ==
    IF IsSpace(s[i]) THEN 0
    ELSE IF i > 1 /\ ~IsSpace(s[i - 1]) THEN s[i].n - 1
    ELSE s[i].n

RECURSIVE WordCountFrom(_, _)
WordCountFrom(s, i) ==
    IF i > Len(s) THEN 0 ELSE WordCountAt(s, i) + WordCountFrom(s, i + 1)

WordCount(s) == WordCountFrom(s, 1)

\* s.split(): the words of s, each a sequence of characters; cur is the word
\* being read
RECURSIVE WordsFrom(_, _, _, _)
WordsFrom(s, i, done, cur) ==
    IF i > Len(s) THEN (IF cur = <<>> THEN done ELSE Append(done, cur))
    ELSE IF IsSpace(s[i])
         THEN WordsFrom(s, i + 1, IF cur = <<>> THEN done ELSE Append(done, cur), <<>>)
    ELSE IF s[i].n = 1
         THEN WordsFrom(s, i + 1, done, Append(cur, s[i].c))
    ELSE WordsFrom(s, i + 1,
                   Append(done, Append(cur, s[i].c))
                       \o [k \in 1..(s[i].n - 2) |-> <<s[i].c>>],
                   <<s[i].c>>)

Words(s) == WordsFrom(s, 1, <<>>, <<>>)

\* sep.join(parts)
RECURSIVE JoinIn(_, _, _, _)
JoinIn(parts, lo, hi, sep) ==
    IF lo > hi THEN <<>>
    ELSE IF lo = hi THEN parts[lo]
    ELSE LET mid == (lo + hi) \div 2
         IN  JoinIn(parts, lo, mid, sep) \o sep \o JoinIn(parts, mid + 1, hi, sep)

Join(parts, sep) == JoinIn(parts, 1, Len(parts), sep)

\* the positions of the line feeds of s[lo..hi], in increasing order
RECURSIVE LineFeedsIn(_, _, _)
LineFeedsIn(s, lo, hi) ==
    IF lo > hi THEN <<>>
    ELSE IF lo = hi THEN (IF s[lo].c = NL THEN <<lo>> ELSE <<>>)
    ELSE LET mid == (lo + hi) \div 2
         IN  LineFeedsIn(s, lo, mid) \o LineFeedsIn(s, mid + 1, hi)

\* str.splitlines(): the pieces between line boundaries, a last empty piece
\* dropped
SplitLines(s) ==
    LET nls == LineFeedsIn(s, 1, Len(s))
        k == Len(nls)
        from(j) == IF j = 1 THEN 1 ELSE nls[j - 1] + 1
        last == from(k + 1)
    IN  [j \in 1..k |-> SubSeq(s, from(j), nls[j] - 1)]
            \o (IF last <= Len(s) THEN <<SubSeq(s, last, Len(s))>> ELSE <<>>)

\* s.split("\n\n"): cut at each pair of line feeds, left to right
RECURSIVE SplitBlankFrom(_, _, _)
SplitBlankFrom(s, i, start) ==
    IF i > Len(s) THEN <<SubSeq(s, start, Len(s))>>
    ELSE IF i < Len(s) /\ s[i].c = NL /\ s[i + 1].c = NL
         THEN <<SubSeq(s, start, i - 1)>> \o SplitBlankFrom(s, i + 2, i + 2)
    ELSE SplitBlankFrom(s, i + 1, start)

SplitBlank(s) == SplitBlankFrom(s, 1, 1)

\* [x for x in seq if keep(x)]
RECURSIVE FilterNonEmpty(_, _)
FilterNonEmpty(seq, i) ==
    IF i > Len(seq) THEN <<>>
    ELSE (IF seq[i] = <<>> THEN <<>> ELSE <<seq[i]>>) \o FilterNonEmpty(seq, i + 1)

\* str(n) for n >= 0
RECURSIVE Decimal(_)
Decimal(n) ==
    LET d == <<"0", "1", "2", "3", "4", "5", "6", "7", "8", "9">>[(n % 10) + 1]
    IN  IF n < 10 THEN <<d>> ELSE Append(Decimal(n \div 10), d)

\* ----------------------------------------------------------------- paths
\* A file path is a sequence of characters.

\* str.lower(), on the letters the paths of this model use
Lower(ch) ==
    CASE ch = "M" -> "m"
      [] ch = "D" -> "d"
      [] ch = "P" -> "p"
      [] ch = "Y" -> "y"
      [] OTHER -> ch

\* Path(file_path).name: what follows the last "/"
PathName(file_path) ==
    LET slashes == {k \in 1..Len(file_path) : file_path[k] = "/"}
    IN  IF slashes = {} THEN file_path
        ELSE SubSeq(file_path, MaxOf(slashes) + 1, Len(file_path))

\* Path(file_path).suffix: the name from its last "." on, when that "." is
\* neither its first nor its last character
PathSuffix(file_path) ==
    LET name == PathName(file_path)
        dots == {k \in 1..Len(name) : name[k] = "."}
    IN  IF dots = {} \/ MaxOf(dots) = 1 \/ MaxOf(dots) = Len(name) THEN <<>>
        ELSE SubSeq(name, MaxOf(dots), Len(name))

EXT_TO_LANG(ext) ==
    CASE ext = <<".", "p", "y">> -> "python"
      [] ext \in {<<".", "j", "s">>, <<".", "j", "s", "x">>,
                  <<".", "t", "s">>, <<".", "t", "s", "x">>} -> "javascript"
      [] ext = <<".", "j", "a", "v", "a">> -> "java"
      [] ext = <<".", "c">> -> "c"
      [] ext \in {<<".", "c", "c">>, <<".", "c", "p", "p">>,
                  <<".", "h", "p", "p">>, <<".", "h">>} -> "cpp"
      [] ext = <<".", "g", "o">> -> "go"
      [] ext = <<".", "r", "s">> -> "rust"
      [] ext \in {<<".", "m", "d">>,
                  <<".", "m", "a", "r", "k", "d", "o", "w", "n">>} -> "markdown"
      [] ext = <<".", "t", "x", "t">> -> "text"
      [] OTHER -> "text"

LANG_DEFINITION_NODES(language) ==
    CASE language = "python" -> {"function_definition", "class_definition"}
      [] language = "javascript" ->
             {"function_declaration", "method_definition", "class_declaration"}
      [] language = "java" -> {"method_declaration", "class_declaration"}
      [] language = "c" -> {"function_definition"}
      [] language = "cpp" -> {"function_definition", "class_specifier"}
      [] language = "go" ->
             {"function_declaration", "method_declaration", "type_declaration"}
      [] language = "rust" ->
             {"function_item", "impl_item", "struct_item", "enum_item", "trait_item"}
      [] OTHER -> {}

detect_language(file_path) ==
    LET suffix == PathSuffix(file_path)
    IN  EXT_TO_LANG([k \in 1..Len(suffix) |-> Lower(suffix[k])])

\* -------------------------------------------------------------- markdown

MAX_WORDS == 400

\* where the match of ^#{1,6}\s+.*$ (re.MULTILINE) that starts at i ends,
\* or 0 when there is none: i starts a line, one to six "#" are followed by
\* white space; \s+ takes all the white space that follows, line feeds
\* included, and .* the rest of the line it stops in
HeadingEnd(s, i) ==
    LET n == Len(s)
        afterHashes == MinOf({j \in i..(n + 1) : j > n \/ s[j].c # "#"})
        afterSpace == MinOf({j \in afterHashes..(n + 1) : j > n \/ ~IsSpace(s[j])})
        lineEnd == MinOf({j \in afterSpace..(n + 1) : j > n \/ s[j].c = NL})
    IN  IF /\ i <= n
           /\ (i = 1 \/ s[i - 1].c = NL)
           /\ afterHashes - i \in 1..6
           /\ afterHashes <= n
           /\ IsSpace(s[afterHashes])
        THEN lineEnd - 1
        ELSE 0

\* re.split(r"(?m)(^#{1,6}\s+.*$)", s) from position i on, the piece in
\* progress starting at start: text, heading, text, heading, ..., text
RECURSIVE ReSplitFrom(_, _, _)
ReSplitFrom(s, i, start) ==
    IF i > Len(s) THEN <<SubSeq(s, start, Len(s))>>
    ELSE LET e == HeadingEnd(s, i)
         IN  IF e = 0 THEN ReSplitFrom(s, i + 1, start)
             ELSE <<SubSeq(s, start, i - 1), SubSeq(s, i, e)>>
                      \o ReSplitFrom(s, e + 1, e + 1)

ReSplit(s) == ReSplitFrom(s, 1, 1)

\* the block the loop of chunk_markdown forms at i = 2(k - 1) of
\* range(0, len(parts), 2)
SectionBlock(parts, k) ==
    LET heading == parts[2 * k - 1]
        body == IF 2 * k <= Len(parts) THEN parts[2 * k] ELSE <<>>
    IN  Strip(heading \o body)

\* the sections list of chunk_markdown
MdSections(content) ==
    LET parts == ReSplit(content)
    IN  FilterNonEmpty([k \in 1..((Len(parts) + 1) \div 2) |-> SectionBlock(parts, k)], 1)

\* paras of chunk_markdown
MdParas(sec) ==
    LET pieces == SplitBlank(sec)
    IN  FilterNonEmpty([k \in 1..Len(pieces) |-> Strip(pieces[k])], 1)

\* FitsBudget off by one
FitsBudgetPlusOne(buf, para) ==
    WordCount(Join(Append(buf, para), S(<<" ">>))) <= MAX_WORDS + 1

\* the test of the packing loop: len(" ".join(buf + [para]).split()) <= MAX_WORDS
FitsBudget(buf, para) == WordCount(Join(Append(buf, para), S(<<" ">>))) <= MAX_WORDS

\* PackParas without the flush after the loop
RECURSIVE PackParasNoFlush(_, _, _, _)
PackParasNoFlush(paras, k, buf, out) ==
    IF k > Len(paras) THEN out
    ELSE IF FitsBudget(buf, paras[k])
         THEN PackParasNoFlush(paras, k + 1, Append(buf, paras[k]), out)
    ELSE PackParasNoFlush(paras, k + 1, <<paras[k]>>,
                          Append(out, Join(buf, S(<<NL, NL>>))))

\* the packing loop over paras[k..] and the flush after it; out holds the
\* contents emitted so far
RECURSIVE PackParas(_, _, _, _)
PackParas(paras, k, buf, out) ==
    IF k > Len(paras)
    THEN (IF buf # <<>> THEN Append(out, Join(buf, S(<<NL, NL>>))) ELSE out)
    ELSE IF FitsBudget(buf, paras[k])
         THEN PackParas(paras, k + 1, Append(buf, paras[k]), out)
    ELSE PackParas(paras, k + 1, <<paras[k]>>, Append(out, Join(buf, S(<<NL, NL>>))))

\* the contents one section contributes
SectionContents(sec) ==
    IF WordCount(sec) <= MAX_WORDS THEN <<sec>>
    ELSE PackParas(MdParas(sec), 1, <<>>, <<>>)

\* Python's None, which no file name equals
None == <<"None">>

MdChunk(file_path, content, section_id) ==
    [content |-> content,
     metadata |-> [file_path |-> file_path, language |-> "markdown",
                   node_type |-> "section", symbol_name |-> None,
                   section_id |-> section_id]]

\* the chunks list after the sections secs[k..], chunks being the list and
\* Len(chunks) the value of section_id before them
RECURSIVE MdChunksFrom(_, _, _, _)
MdChunksFrom(file_path, secs, k, chunks) ==
    IF k > Len(secs) THEN chunks
    ELSE LET cs == SectionContents(secs[k])
             n == Len(chunks)
         IN  MdChunksFrom(file_path, secs, k + 1,
                 chunks \o [j \in 1..Len(cs) |-> MdChunk(file_path, cs[j], n + j - 1)])

\* the second loop of chunk_markdown: for sec in sections or [content]
MdChunks(file_path, content, sections) ==
    MdChunksFrom(file_path, IF sections # <<>> THEN sections ELSE <<content>>, 1, <<>>)

chunk_markdown(file_path, content) == MdChunks(file_path, content, MdSections(content))

\* ------------------------------------------------------------------ text

LINES_PER_CHUNK == 80

TextChunk(file_path, content, block_id) ==
    [content |-> content,
     metadata |-> [file_path |-> file_path, language |-> "text",
                   node_type |-> "block", symbol_name |-> None,
                   block_id |-> block_id]]

\* TextPart without strip()
TextPartUnstripped(lines, i) ==
    Join(SubSeq(lines, i + 1, Min2(i + LINES_PER_CHUNK, Len(lines))), S(<<NL>>))

\* part of the window that starts at line i (0-based)
TextPart(lines, i) ==
    Strip(Join(SubSeq(lines, i + 1, Min2(i + LINES_PER_CHUNK, Len(lines))), S(<<NL>>)))

\* the loop of chunk_text from line i (0-based) on
RECURSIVE TextBlocksFrom(_, _, _)
TextBlocksFrom(file_path, lines, i) ==
    IF i >= Len(lines) THEN <<>>
    ELSE LET part == TextPart(lines, i)
         IN  (IF part # <<>>
              THEN <<TextChunk(file_path, part, i \div LINES_PER_CHUNK)>>
              ELSE <<>>)
                 \o TextBlocksFrom(file_path, lines, i + LINES_PER_CHUNK)

chunk_text(file_path, content) ==
    LET chunks == TextBlocksFrom(file_path, SplitLines(content), 0)
    IN  IF chunks = <<>> /\ Strip(content) # <<>>
        THEN <<TextChunk(file_path, Strip(content), 0)>>
        ELSE chunks

\* ------------------------------------------------------------ the parser
\* tree-sitter is an external library.  ParseTable lists, for each code text
\* of this model, the syntax tree the grammar gives it: a sequence of nodes,
\* the root first, each with its kind, the characters first..last of the
\* text it spans and its children in document order.  The trees are
\* abridged: token leaves (def, :, parentheses) are left out, none being a
\* definition kind.

\* foo.py of the specification's example: two top-level functions
TwoDefsText ==
    S(<<"d", "e", "f", " ", "a", "(", ")", ":", NL, " ", " ", " ", " ",
        "p", "a", "s", "s", NL, NL, "d", "e", "f", " ", "b", "(", ")",
        ":", NL, " ", " ", " ", " ", "p", "a", "s", "s", NL>>)

TwoDefsTree ==
    <<[type |-> "module", first |-> 1, last |-> 37, children |-> <<2, 8>>],
      [type |-> "function_definition", first |-> 1, last |-> 17, children |-> <<3, 4, 5>>],
      [type |-> "identifier", first |-> 5, last |-> 5, children |-> <<>>],
      [type |-> "parameters", first |-> 6, last |-> 7, children |-> <<>>],
      [type |-> "block", first |-> 14, last |-> 17, children |-> <<6>>],
      [type |-> "pass_statement", first |-> 14, last |-> 17, children |-> <<7>>],
      [type |-> "pass", first |-> 14, last |-> 17, children |-> <<>>],
      [type |-> "function_definition", first |-> 20, last |-> 36, children |-> <<9, 10, 11>>],
      [type |-> "identifier", first |-> 24, last |-> 24, children |-> <<>>],
      [type |-> "parameters", first |-> 25, last |-> 26, children |-> <<>>],
      [type |-> "block", first |-> 33, last |-> 36, children |-> <<12>>],
      [type |-> "pass_statement", first |-> 33, last |-> 36, children |-> <<13>>],
      [type |-> "pass", first |-> 33, last |-> 36, children |-> <<>>]>>

\* a method inside a class
NestedText ==
    S(<<"c", "l", "a", "s", "s", " ", "C", ":", NL, " ", "d", "e", "f",
        " ", "m", "(", "x", ")", ":", NL, " ", " ", "p", "a", "s", "s",
        NL>>)

NestedTree ==
    <<[type |-> "module", first |-> 1, last |-> 27, children |-> <<2>>],
      [type |-> "class_definition", first |-> 1, last |-> 26, children |-> <<3, 4>>],
      [type |-> "identifier", first |-> 7, last |-> 7, children |-> <<>>],
      [type |-> "block", first |-> 11, last |-> 26, children |-> <<5>>],
      [type |-> "function_definition", first |-> 11, last |-> 26, children |-> <<6, 7, 9>>],
      [type |-> "identifier", first |-> 15, last |-> 15, children |-> <<>>],
      [type |-> "parameters", first |-> 16, last |-> 18, children |-> <<8>>],
      [type |-> "identifier", first |-> 17, last |-> 17, children |-> <<>>],
      [type |-> "block", first |-> 23, last |-> 26, children |-> <<10>>],
      [type |-> "pass_statement", first |-> 23, last |-> 26, children |-> <<11>>],
      [type |-> "pass", first |-> 23, last |-> 26, children |-> <<>>]>>

\* a module without definitions
NoDefsText ==
    S(<<"x", " ", "=", " ", "1", NL>>)

NoDefsTree ==
    <<[type |-> "module", first |-> 1, last |-> 6, children |-> <<2>>],
      [type |-> "expression_statement", first |-> 1, last |-> 5, children |-> <<3>>],
      [type |-> "assignment", first |-> 1, last |-> 5, children |-> <<4, 5>>],
      [type |-> "identifier", first |-> 1, last |-> 1, children |-> <<>>],
      [type |-> "integer", first |-> 5, last |-> 5, children |-> <<>>]>>

\* the empty file
EmptyText == <<>>

EmptyTree ==
    <<[type |-> "module", first |-> 1, last |-> 0, children |-> <<>>]>>

\* a file of white space
BlankText ==
    S(<<" ", NL>>)

BlankTree ==
    <<[type |-> "module", first |-> 1, last |-> 2, children |-> <<>>]>>

\* text the grammar rejects: an ERROR node, no definition
GarbageText ==
    S(<<"@", " ", "@">>)

GarbageTree ==
    <<[type |-> "module", first |-> 1, last |-> 3, children |-> <<2>>],
      [type |-> "ERROR", first |-> 1, last |-> 3, children |-> <<>>]>>

\* a two-byte character before the definition
AfterAccentText ==
    S(<<"#", " ", EACUTE, NL, "d", "e", "f", " ", "a", "(", ")", ":", NL,
        " ", "p", "a", "s", "s", NL>>)

AfterAccentTree ==
    <<[type |-> "module", first |-> 1, last |-> 19, children |-> <<2, 3>>],
      [type |-> "comment", first |-> 1, last |-> 3, children |-> <<>>],
      [type |-> "function_definition", first |-> 5, last |-> 18, children |-> <<4, 5, 6>>],
      [type |-> "identifier", first |-> 9, last |-> 9, children |-> <<>>],
      [type |-> "parameters", first |-> 10, last |-> 11, children |-> <<>>],
      [type |-> "block", first |-> 15, last |-> 18, children |-> <<7>>],
      [type |-> "pass_statement", first |-> 15, last |-> 18, children |-> <<8>>],
      [type |-> "pass", first |-> 15, last |-> 18, children |-> <<>>]>>

\* a two-byte character inside the definition
AccentInsideText ==
    S(<<"d", "e", "f", " ", "a", "(", EACUTE, ")", ":", NL, " ", "p",
        "a", "s", "s", NL, "x", NL>>)

AccentInsideTree ==
    <<[type |-> "module", first |-> 1, last |-> 18, children |-> <<2, 9>>],
      [type |-> "function_definition", first |-> 1, last |-> 15, children |-> <<3, 4, 6>>],
      [type |-> "identifier", first |-> 5, last |-> 5, children |-> <<>>],
      [type |-> "parameters", first |-> 6, last |-> 8, children |-> <<5>>],
      [type |-> "identifier", first |-> 7, last |-> 7, children |-> <<>>],
      [type |-> "block", first |-> 12, last |-> 15, children |-> <<7>>],
      [type |-> "pass_statement", first |-> 12, last |-> 15, children |-> <<8>>],
      [type |-> "pass", first |-> 12, last |-> 15, children |-> <<>>],
      [type |-> "expression_statement", first |-> 17, last |-> 17, children |-> <<10>>],
      [type |-> "identifier", first |-> 17, last |-> 17, children |-> <<>>]>>

\* two-byte characters before the definition, enough for its byte offset
\* to pass the end of the str
ManyAccentsText ==
    S(<<"#", EACUTE, EACUTE, EACUTE, EACUTE, EACUTE, EACUTE, EACUTE,
        EACUTE, EACUTE, NL, "d", "e", "f", " ", "f", "(", ")", ":", "0">>)

ManyAccentsTree ==
    <<[type |-> "module", first |-> 1, last |-> 20, children |-> <<2, 3>>],
      [type |-> "comment", first |-> 1, last |-> 10, children |-> <<>>],
      [type |-> "function_definition", first |-> 12, last |-> 20, children |-> <<4, 5, 6>>],
      [type |-> "identifier", first |-> 14, last |-> 14, children |-> <<>>],
      [type |-> "parameters", first |-> 17, last |-> 18, children |-> <<>>],
      [type |-> "block", first |-> 20, last |-> 20, children |-> <<7>>],
      [type |-> "expression_statement", first |-> 20, last |-> 20, children |-> <<8>>],
      [type |-> "integer", first |-> 20, last |-> 20, children |-> <<>>]>>

\* a C function
CFuncText ==
    S(<<"i", "n", "t", " ", "f", "(", ")", "{", "}", NL>>)

CFuncTree ==
    <<[type |-> "translation_unit", first |-> 1, last |-> 10, children |-> <<2>>],
      [type |-> "function_definition", first |-> 1, last |-> 9, children |-> <<3, 4, 7>>],
      [type |-> "primitive_type", first |-> 1, last |-> 3, children |-> <<>>],
      [type |-> "function_declarator", first |-> 5, last |-> 7, children |-> <<5, 6>>],
      [type |-> "identifier", first |-> 5, last |-> 5, children |-> <<>>],
      [type |-> "parameter_list", first |-> 6, last |-> 7, children |-> <<>>],
      [type |-> "compound_statement", first |-> 8, last |-> 9, children |-> <<>>]>>


ParseTable ==
    {[language |-> "python", text |-> TwoDefsText, tree |-> TwoDefsTree],
     [language |-> "python", text |-> NestedText, tree |-> NestedTree],
     [language |-> "python", text |-> NoDefsText, tree |-> NoDefsTree],
     [language |-> "python", text |-> EmptyText, tree |-> EmptyTree],
     [language |-> "python", text |-> BlankText, tree |-> BlankTree],
     [language |-> "python", text |-> GarbageText, tree |-> GarbageTree],
     [language |-> "python", text |-> AfterAccentText, tree |-> AfterAccentTree],
     [language |-> "python", text |-> AccentInsideText, tree |-> AccentInsideTree],
     [language |-> "python", text |-> ManyAccentsText, tree |-> ManyAccentsTree],
     [language |-> "c", text |-> CFuncText, tree |-> CFuncTree]}

\* len(ch.encode("utf8")) of one atom
ByteLen(a) == (IF a.c = EACUTE THEN 2 ELSE 1) * a.n + (a.n - 1)

\* len(s[lo..hi].encode("utf8"))
RECURSIVE BytesIn(_, _, _)
BytesIn(s, lo, hi) ==
    IF lo > hi THEN 0
    ELSE IF lo = hi THEN ByteLen(s[lo])
    ELSE LET mid == (lo + hi) \div 2
         IN  BytesIn(s, lo, mid) + BytesIn(s, mid + 1, hi)

\* the number of line feeds of s[1..hi]: the row of the position after them
RowAfter(s, hi) == Cardinality({k \in 1..hi : s[k].c = NL})

\* bytes(content, "utf8") raises UnicodeEncodeError on a lone surrogate
CanEncode(content) == \A k \in 1..Len(content) : content[k].c # SURROGATE

\* a node as py-tree-sitter reports it: offsets in bytes of the encoded
\* input, points as rows counted from 0
TSNode(content, n) ==
    [type |-> n.type,
     start_byte |-> BytesIn(content, 1, n.first - 1),
     end_byte |-> BytesIn(content, 1, n.last),
     start_row |-> RowAfter(content, n.first - 1),
     end_row |-> RowAfter(content, n.last),
     children |-> n.children]

\* parser.parse(bytes(content, "utf8")): the nodes of the tree, root first
Parse(language, content) ==
    LET entry == CHOOSE e \in ParseTable : e.language = language /\ e.text = content
    IN  [k \in 1..Len(entry.tree) |-> TSNode(content, entry.tree[k])]

\* ------------------------------------------------------------------ code

node_text(content, node) == Slice(content, node.start_byte, node.end_byte)

DefChunk(file_path, content, language, node) ==
    [content |-> node_text(content, node),
     metadata |-> [file_path |-> file_path, language |-> language,
                   node_type |-> node.type,
                   start_line |-> node.start_row + 1,
                   end_line |-> node.end_row + 1]]

\* len(content.splitlines()) or 1
FileEndLine(content) ==
    LET n == Len(SplitLines(content)) IN IF n # 0 THEN n ELSE 1

FileChunk(file_path, content, language) ==
    [content |-> content,
     metadata |-> [file_path |-> file_path, language |-> language,
                   node_type |-> "file",
                   symbol_name |-> PathName(file_path),
                   start_line |-> 1,
                   end_line |-> FileEndLine(content)]]

Reverse(s) == [k \in 1..Len(s) |-> s[Len(s) + 1 - k]]

\* PushChildren without reversed()
PushChildrenInOrder(rest, children) == rest \o children

\* stack.pop() has left rest; stack.extend(reversed(node.children))
PushChildren(rest, children) == rest \o Reverse(children)

\* the body of the walk for the popped node: chunks after it
VisitNode(file_path, content, language, node, chunks) ==
    IF node.type \in LANG_DEFINITION_NODES(language)
    THEN Append(chunks, DefChunk(file_path, content, language, node))
    ELSE chunks

\* WithFileFallback without its test
WithFileChunkAlways(file_path, content, language, chunks) ==
    Append(chunks, FileChunk(file_path, content, language))

\* "if not chunks": the whole-file chunk
WithFileFallback(file_path, content, language, chunks) ==
    IF chunks = <<>> THEN <<FileChunk(file_path, content, language)>> ELSE chunks

\* ------------------------------------------------------------- assembler

PREVIEW_CHARS == 2000

\* ChunkId without the "::chunk" between path and number
ChunkIdNoSeparator(file_path, idx) == file_path \o Decimal(idx)

\* f"{file_path}::chunk{idx}"
ChunkId(file_path, idx) ==
    file_path \o <<":", ":", "c", "h", "u", "n", "k">> \o Decimal(idx)

\* f"{file_path}::error0"
ErrorId(file_path) == file_path \o <<":", ":", "e", "r", "r", "o", "r", "0">>

\* the loop at the end of chunk_file (the dependencies field is not modelled)
Stamp(file_path, chunks) ==
    [k \in 1..Len(chunks) |->
        [content |-> chunks[k].content,
         metadata |-> chunks[k].metadata @@ [chunk_id |-> ChunkId(file_path, k - 1)]]]

\* ErrorChunk without the cut at PREVIEW_CHARS
ErrorChunkWholeContent(file_path, content, e) ==
    [content |-> content,
     metadata |-> [file_path |-> file_path, language |-> "text",
                   node_type |-> "error_fallback", symbol_name |-> None,
                   chunk_id |-> ErrorId(file_path),
                   dependencies |-> <<>>, error |-> e]]

\* the chunk the except branch of chunk_codebase appends
ErrorChunk(file_path, content, e) ==
    [content |-> Prefix(content, PREVIEW_CHARS),
     metadata |-> [file_path |-> file_path, language |-> "text",
                   node_type |-> "error_fallback", symbol_name |-> None,
                   chunk_id |-> ErrorId(file_path),
                   dependencies |-> <<>>, error |-> e]]

\* ---------------------------------------------------------------- inputs

MaxFiles == 2

MaxDocLen == 5

MaxTextPieces == 3

SurrogateText == <<Ch("x"), Ch(SURROGATE)>>

\* more than PREVIEW_CHARS characters, then a lone surrogate
LongSurrogateText == <<Run("a", 1200), Ch(NL), Ch(SURROGATE)>>

TwoHeadingsText == S(<<"#", " ", "A", NL, "x", NL, "#", " ", "B", NL, "y">>)

\* the specification's example: one heading, 500 words of body under it
BigBodyText == <<Ch("#"), Ch(" "), Ch("h"), Ch(NL), Ch(NL), Run("a", 500)>>

\* a section over the budget whose first two paragraphs fit one chunk
PackedText ==
    <<Ch("a"), Ch(NL), Ch(NL), Run("a", 200), Ch(NL), Ch(NL), Run("b", 200),
      Ch(NL), Ch(NL), Ch("c")>>

\* n lines "a"
LinesText(n) == [k \in 1..(2 * n) |-> IF k % 2 = 1 THEN Ch("a") ELSE Ch(NL)]

\* n empty lines
BlankLinesText(n) == [k \in 1..n |-> Ch(NL)]

\* three windows of lines, the second one blank
GappedText == LinesText(LINES_PER_CHUNK) \o BlankLinesText(LINES_PER_CHUNK) \o S(<<"a">>)

\* the files batches are made of
BatchFiles ==
    {[path |-> <<"f", "o", "o", ".", "p", "y">>, content |-> TwoDefsText],
     [path |-> <<"e", ".", "p", "y">>, content |-> EmptyText],
     [path |-> <<"s", ".", "p", "y">>, content |-> SurrogateText],
     [path |-> <<"l", ".", "P", "Y">>, content |-> LongSurrogateText],
     [path |-> <<"r", ".", "m", "d">>, content |-> TwoHeadingsText],
     [path |-> <<"b", ".", "m", "d">>, content |-> BigBodyText],
     [path |-> <<"r", ".", "m", "d", ":", ":", "c", "h", "u", "n", "k", "0">>,
      content |-> S(<<"a", " ", "b">>)],
     [path |-> <<"r", ".", "m", "d", ":", ":", "c", "h", "u", "n", "k">>,
      content |-> LinesText(LINES_PER_CHUNK + 1)]}

\* files chunked on their own
SingleFiles ==
    {[path |-> <<"p", "/", "c", ".", "p", "y">>, content |-> NestedText],
     [path |-> <<"x", ".", "p", "y">>, content |-> NoDefsText],
     [path |-> <<"w", ".", "p", "y">>, content |-> BlankText],
     [path |-> <<"g", ".", "p", "y">>, content |-> GarbageText],
     [path |-> <<"u", ".", "p", "y">>, content |-> AfterAccentText],
     [path |-> <<"v", ".", "p", "y">>, content |-> AccentInsideText],
     [path |-> <<"n", ".", "p", "y">>, content |-> ManyAccentsText],
     [path |-> <<"f", ".", "c">>, content |-> CFuncText],
     [path |-> <<"k", ".", "m", "d">>, content |-> PackedText],
     [path |-> <<"t", ".", "t", "x", "t">>, content |-> GappedText]}

\* every markdown document of at most MaxDocLen atoms over this alphabet
DocAtoms == {Ch("#"), Ch(" "), Ch(NL), Ch("a"), Run("b", MAX_WORDS)}

Docs == UNION {[1..n -> DocAtoms] : n \in 0..MaxDocLen}

\* every text of at most MaxTextPieces of these pieces
TextPieces ==
    {S(<<"a", NL>>), S(<<" ", NL>>), S(<<"a">>),
     LinesText(LINES_PER_CHUNK - 1), BlankLinesText(LINES_PER_CHUNK)}

RECURSIVE Concat(_, _)
Concat(seqs, k) == IF k > Len(seqs) THEN <<>> ELSE seqs[k] \o Concat(seqs, k + 1)

Texts == {Concat(ps, 1) : ps \in UNION {[1..n -> TextPieces] : n \in 0..MaxTextPieces}}

FileLists ==
    UNION {[1..n -> BatchFiles] : n \in 0..MaxFiles}
        \cup {<<f>> : f \in SingleFiles}
        \cup {<<[path |-> <<"g", ".", "m", "d">>, content |-> d]>> : d \in Docs}
        \cup {<<[path |-> <<"n", "o", "t", "e", "s">>, content |-> x]>> : x \in Texts}

\* ----------------------------------------------------------- the program
\* chunk_codebase(files) runs its loop over files; file_idx is the position
\* of the loop (1-based), pc where control is:
\*   "import"    the module is being imported: line 26 is about to run
\*   "build"     no candidate exists: the build script is about to run
\*   "load"      the loop that fills TS_LANGS is running
\*   "failed"    the import has ended in an exception
\*   "ready"     the module is imported, chunk_codebase can be called
\*   "loop"      chunk_codebase is about to take the next file
\*   "markdown"  chunk_markdown has formed its sections
\*   "walk"      chunk_code is in its while loop
\*   "done"      chunk_codebase has returned all_chunks
\* sections is the local of chunk_markdown; tree, stack and chunks are the
\* locals of chunk_code.  visited records the nodes the while loop has
\* popped so far, in order; the program keeps no such list.
\* TS_LIB_PATH and TS_LANGS are the globals of the module, TS_LANGS as the
\* set of its keys.  The file system is disk, the candidates that exist when
\* the import starts, and built, the candidates the build script has made;
\* grammars are the tags the bundle at hand holds a grammar for.

VARIABLES files, file_idx, all_chunks, pc, sections, tree, stack, chunks, visited,
          disk, built, grammars, TS_LIB_PATH, TS_LANGS

vars == <<files, file_idx, all_chunks, pc, sections, tree, stack, chunks, visited,
          disk, built, grammars, TS_LIB_PATH, TS_LANGS>>

\* the globals of the module and its environment
startup == <<disk, built, grammars, TS_LIB_PATH, TS_LANGS>>

\* the locals of chunk_codebase, chunk_markdown and chunk_code
locals == <<files, file_idx, all_chunks, sections, tree, stack, chunks, visited>>

TS_LIB_CANDIDATES == <<"build/my-languages.so", "build/my-languages.dylib",
                       "build/my-languages.dll">>

Candidates == {TS_LIB_CANDIDATES[k] : k \in 1..Len(TS_LIB_CANDIDATES)}

\* set(EXT_TO_LANG.values()) less "text" and "markdown"
CodeTags == {"python", "javascript", "java", "c", "cpp", "go", "rust"}

\* the bundles a build directory may hold: all the grammars, or all but one
GrammarSets == {CodeTags} \cup {CodeTags \ {l} : l \in CodeTags}

\* next((f for f in TS_LIB_CANDIDATES if os.path.exists(f)), None)
FirstExisting(existing) ==
    IF \E k \in 1..Len(TS_LIB_CANDIDATES) : TS_LIB_CANDIDATES[k] \in existing
    THEN TS_LIB_CANDIDATES[MinOf({k \in 1..Len(TS_LIB_CANDIDATES) :
                                     TS_LIB_CANDIDATES[k] \in existing})]
    ELSE "None"

Init ==
    /\ disk \in SUBSET Candidates
    /\ grammars \in (IF disk = {} THEN {{}} ELSE GrammarSets)
    /\ built = {}
    /\ TS_LIB_PATH = "None"
    /\ TS_LANGS = {}
    /\ files = <<>>
    /\ file_idx = 1
    /\ all_chunks = <<>>
    /\ pc = "import"
    /\ sections = <<>>
    /\ tree = <<>>
    /\ stack = <<>>
    /\ chunks = <<>>
    /\ visited = <<>>

HasFile == pc = "loop" /\ file_idx <= Len(files)

file_path == files[file_idx].path

content == files[file_idx].content

language == detect_language(file_path)

\* line 26: the first candidate that exists, if any
Scan ==
    /\ pc = "import"
    /\ TS_LIB_PATH' = FirstExisting(disk)
    /\ pc' = IF FirstExisting(disk) = "None" THEN "build" ELSE "load"
    /\ UNCHANGED <<locals, disk, built, grammars, TS_LANGS>>

\* lines 33-41, the build script fails: check_call raises
BuildFails ==
    /\ pc = "build"
    /\ pc' = "failed"
    /\ UNCHANGED <<locals, startup>>

\* lines 33-41, the build script returns 0: it has written the bundle of
\* its platform with all the grammars, or nothing a candidate names; the
\* candidates are scanned again and the import fails if none exists
BuildReturns ==
    /\ pc = "build"
    /\ \E made \in {{}} \cup {{c} : c \in Candidates} :
          /\ built' = made
          /\ grammars' = IF made = {} THEN grammars ELSE CodeTags
          /\ TS_LIB_PATH' = FirstExisting(disk \cup made)
          /\ pc' = IF FirstExisting(disk \cup made) = "None" THEN "failed" ELSE "load"
    /\ UNCHANGED <<locals, disk, TS_LANGS>>

\* one turn of the loop of lines 67-69, in the order of the set:
\* Language(TS_LIB_PATH, lang) raises when the bundle has no such grammar
LoadLanguage ==
    /\ pc = "load"
    /\ \E lang \in CodeTags \ TS_LANGS :
          IF lang \in grammars
          THEN TS_LANGS' = TS_LANGS \cup {lang} /\ pc' = "load"
          ELSE TS_LANGS' = TS_LANGS /\ pc' = "failed"
    /\ UNCHANGED <<locals, disk, built, grammars, TS_LIB_PATH>>

\* the loop has ended; the rest of the module defines its functions
ImportDone ==
    /\ pc = "load"
    /\ TS_LANGS = CodeTags
    /\ pc' = "ready"
    /\ UNCHANGED <<locals, startup>>

\* the file lists chunk_codebase is called with.  The chunkers read nothing
\* of the start-up but TS_LANGS, which is the same after every import that
\* succeeds: all the lists are taken after the import that finds the first
\* candidate alone, and the lists of one code file after the others
CallFiles ==
    IF disk = {TS_LIB_CANDIDATES[1]} THEN FileLists
    ELSE {<<f>> : f \in {g \in SingleFiles : detect_language(g.path) \in CodeTags}}

\* a call chunk_codebase(files) of the imported module
CallChunkCodebase ==
    /\ pc = "ready"
    /\ files' \in CallFiles
    /\ file_idx' = 1
    /\ all_chunks' = <<>>
    /\ pc' = "loop"
    /\ UNCHANGED <<sections, tree, stack, chunks, visited, startup>>

\* what chunk_codebase does with the list chunk_file returned
ExtendAll(result) ==
    /\ all_chunks' = all_chunks \o result
    /\ file_idx' = file_idx + 1
    /\ pc' = "loop"

\* chunk_file on a text file, start to return
ChunkTextFile ==
    /\ HasFile
    /\ language = "text"
    /\ ExtendAll(Stamp(file_path, chunk_text(file_path, content)))
    /\ UNCHANGED <<files, sections, tree, stack, chunks, visited>>
    /\ UNCHANGED startup

\* chunk_file on a markdown file, up to the sections of chunk_markdown
MarkdownSplit ==
    /\ HasFile
    /\ language = "markdown"
    /\ sections' = MdSections(content)
    /\ pc' = "markdown"
    /\ UNCHANGED <<files, file_idx, all_chunks, tree, stack, chunks, visited>>
    /\ UNCHANGED startup

\* the second loop of chunk_markdown, and chunk_file to its return
MarkdownPack ==
    /\ pc = "markdown"
    /\ ExtendAll(Stamp(file_path, MdChunks(file_path, content, sections)))
    /\ sections' = <<>>
    /\ UNCHANGED <<files, tree, stack, chunks, visited>>
    /\ UNCHANGED startup

\* chunk_file on a code file, up to the while loop of chunk_code
CodeParse ==
    /\ HasFile
    /\ language \notin {"markdown", "text"}
    /\ language \in TS_LANGS
    /\ CanEncode(content)
    /\ tree' = Parse(language, content)
    /\ stack' = <<1>>
    /\ chunks' = <<>>
    /\ visited' = <<>>
    /\ pc' = "walk"
    /\ UNCHANGED <<files, file_idx, all_chunks, sections>>
    /\ UNCHANGED startup

\* bytes(content, "utf8") raises in chunk_code; the except branch of
\* chunk_codebase appends the fallback chunk and the loop goes on
CodeRaise ==
    /\ HasFile
    /\ language \notin {"markdown", "text"}
    /\ ~CanEncode(content)
    /\ ExtendAll(<<ErrorChunk(file_path, content, "UnicodeEncodeError")>>)
    /\ UNCHANGED <<files, sections, tree, stack, chunks, visited>>
    /\ UNCHANGED startup

\* one turn of the while loop of chunk_code
WalkStep ==
    /\ pc = "walk"
    /\ stack # <<>>
    /\ LET node == tree[stack[Len(stack)]]
       IN  /\ stack' = PushChildren(SubSeq(stack, 1, Len(stack) - 1), node.children)
           /\ chunks' = VisitNode(file_path, content, language, node, chunks)
    /\ visited' = Append(visited, stack[Len(stack)])
    /\ UNCHANGED <<files, file_idx, all_chunks, pc, sections, tree>>
    /\ UNCHANGED startup

\* the end of chunk_code and of chunk_file
CodeReturn ==
    /\ pc = "walk"
    /\ stack = <<>>
    /\ ExtendAll(Stamp(file_path, WithFileFallback(file_path, content, language, chunks)))
    /\ tree' = <<>>
    /\ chunks' = <<>>
    /\ visited' = <<>>
    /\ UNCHANGED <<files, sections, stack>>
    /\ UNCHANGED startup

\* return all_chunks
Return ==
    /\ pc = "loop"
    /\ file_idx > Len(files)
    /\ pc' = "done"
    /\ UNCHANGED <<files, file_idx, all_chunks, sections, tree, stack, chunks, visited>>
    /\ UNCHANGED startup

Next ==
    \/ Scan
    \/ BuildFails
    \/ BuildReturns
    \/ LoadLanguage
    \/ ImportDone
    \/ CallChunkCodebase
    \/ ChunkTextFile
    \/ MarkdownSplit
    \/ MarkdownPack
    \/ CodeParse
    \/ CodeRaise
    \/ WalkStep
    \/ CodeReturn
    \/ Return

Spec == Init /\ [][Next]_vars

\* ---------------------------------------------------------------- claims
\* What the claims are stated with.

IsCode(f) == detect_language(f.path) \notin {"markdown", "text"}

\* chunk_file(f.path, f.content) raises
Raises(f) == IsCode(f) /\ ~CanEncode(f.content)

DistinctPaths == \A j, k \in 1..Len(files) : j # k => files[j].path # files[k].path

\* the nodes of t under node k in document pre-order; ks[j..] are siblings
RECURSIVE PreOrder(_, _), PreOrderAll(_, _, _)
PreOrder(t, k) == <<k>> \o PreOrderAll(t, t[k].children, 1)
PreOrderAll(t, ks, j) ==
    IF j > Len(ks) THEN <<>> ELSE PreOrder(t, ks[j]) \o PreOrderAll(t, ks, j + 1)

\* the members of seq that are in set, in the order of seq
RECURSIVE Keep(_, _, _)
Keep(seq, set, j) ==
    IF j > Len(seq) THEN <<>>
    ELSE (IF seq[j] \in set THEN <<seq[j]>> ELSE <<>>) \o Keep(seq, set, j + 1)

\* the definition nodes of t in document pre-order
DefNodes(t, lang) ==
    Keep(PreOrder(t, 1), {k \in 1..Len(t) : t[k].type \in LANG_DEFINITION_NODES(lang)}, 1)

\* what chunk_file returns for f on its own, f a file it does not raise on
ChunkFileAlone(f) ==
    LET lang == detect_language(f.path)
    IN  IF lang = "markdown" THEN Stamp(f.path, chunk_markdown(f.path, f.content))
        ELSE IF lang = "text" THEN Stamp(f.path, chunk_text(f.path, f.content))
        ELSE LET t == Parse(lang, f.content)
                 defs == DefNodes(t, lang)
             IN  Stamp(f.path, WithFileFallback(f.path, f.content, lang,
                     [j \in 1..Len(defs) |-> DefChunk(f.path, f.content, lang, t[defs[j]])]))

\* the number of chunks file f is to contribute
SegLen(f) == IF Raises(f) THEN 1 ELSE Len(ChunkFileAlone(f))

\* the number of chunks the files before the k-th are to contribute
RECURSIVE SegStart(_, _)
SegStart(fs, k) == IF k <= 1 THEN 0 ELSE SegStart(fs, k - 1) + SegLen(fs[k - 1])

Segment(k) ==
    SubSeq(all_chunks, SegStart(files, k) + 1, SegStart(files, k) + SegLen(files[k]))

IsErrorFallback(c) == c.metadata.node_type = "error_fallback"

\* some action of Next can be taken: the guards of the actions
CanStep ==
    \/ pc = "loop" /\ file_idx > Len(files)
    \/ HasFile /\ language \in {"markdown", "text"}
    \/ HasFile /\ language \notin {"markdown", "text"} /\ ~CanEncode(content)
    \/ HasFile /\ language \notin {"markdown", "text"} /\ CanEncode(content)
          /\ \E e \in ParseTable : e.language = language /\ e.text = content
    \/ pc = "markdown"
    \/ pc = "walk"

\* C1: chunk_codebase never raises and isolates the failures of single
\* files.  It never stops short of its return; and when it has returned,
\* all_chunks is, file after file in list order, for a file chunk_file
\* raises on exactly one error_fallback chunk (the first 2000 characters of
\* the content, no dependencies, an error description) and for any other
\* file exactly the chunks chunk_file returns for it alone, in their order.
C1_IsolatesFailures ==
    /\ pc \in {"loop", "markdown", "walk"} => CanStep
    /\ pc = "done" =>
          /\ Len(all_chunks) = SegStart(files, Len(files) + 1)
          /\ \A k \in 1..Len(files) :
                IF Raises(files[k])
                THEN LET c == Segment(k)[1]
                     IN  /\ IsErrorFallback(c)
                         /\ c.metadata.file_path = files[k].path
                         /\ c.content = Prefix(files[k].content, 2000)
                         /\ StrLen(c.content) = Min2(2000, StrLen(files[k].content))
                         /\ c.metadata.dependencies = <<>>
                         /\ c.metadata.error # ""
                ELSE Segment(k) = ChunkFileAlone(files[k])

\* C1's case: a batch has returned in which a file of more than 2000
\* characters failed and a later file was chunked
C1_Witness ==
    /\ pc = "done"
    /\ \E j, k \in 1..Len(files) :
          /\ j < k
          /\ Raises(files[j])
          /\ StrLen(files[j].content) > 2000
          /\ ~Raises(files[k])
          /\ Len(Segment(k)) >= 2

\* the position of all_chunks[a] among the chunks of its file_path
PositionInFile(a) ==
    Cardinality({b \in 1..(a - 1) :
        all_chunks[b].metadata.file_path = all_chunks[a].metadata.file_path})

\* C2: when the paths of the file list are pairwise distinct, no two chunks
\* of the returned list carry the same chunk_id, fallback chunks included,
\* and each chunk_id is made of the file path and the chunk's zero-based
\* position in its file's chunk list alone: <path>::chunk<position>, and
\* <path>::error0 for the one chunk of a file that failed.
C2_UniqueChunkIds ==
    (pc = "done" /\ DistinctPaths) =>
        /\ \A a, b \in 1..Len(all_chunks) :
              a # b => all_chunks[a].metadata.chunk_id # all_chunks[b].metadata.chunk_id
        /\ \A a \in 1..Len(all_chunks) :
              LET m == all_chunks[a].metadata
              IN  m.chunk_id =
                      IF IsErrorFallback(all_chunks[a])
                      THEN m.file_path \o <<":", ":", "e", "r", "r", "o", "r">>
                               \o Decimal(PositionInFile(a))
                      ELSE m.file_path \o <<":", ":", "c", "h", "u", "n", "k">>
                               \o Decimal(PositionInFile(a))

\* C2's case: a batch of two files has returned, one path a chunk_id of the
\* other, with a fallback chunk and a chunk in second position
C2_Witness ==
    /\ pc = "done"
    /\ DistinctPaths
    /\ Len(files) = 2
    /\ \E a, b \in 1..Len(all_chunks) :
          /\ IsErrorFallback(all_chunks[a])
          /\ ~IsErrorFallback(all_chunks[b])
          /\ PositionInFile(b) >= 1

\* a file all of whose characters are white space (or none) has no content
\* to chunk
HasText(f) == Strip(f.content) # <<>>

\* C3: every chunk chunk_file returns for a file with at least one
\* character that is not white space has a content of length greater than
\* zero.
C3_NonEmptyContent ==
    pc = "done" =>
        \A k \in 1..Len(files) :
            (HasText(files[k]) /\ ~Raises(files[k])) =>
                \A j \in 1..Len(Segment(k)) : Segment(k)[j].content # <<>>

\* C4: an empty file produces zero chunks, whatever its language tag.
C4_EmptyFileNoChunks ==
    (pc = "done" /\ \A k \in 1..Len(files) : files[k].content = <<>>) =>
        all_chunks = <<>>

\* every heading of s, a match of the pattern of chunk_markdown, lies within
\* one line: it is a heading line
HeadingsAreLines(s) ==
    \A i \in 1..Len(s) :
        HeadingEnd(s, i) # 0 => \A j \in i..HeadingEnd(s, i) : s[j].c # NL

\* C5: the sections of chunk_markdown are cut at the heading lines: every
\* section but a leading one starts at a heading line, and no section holds
\* a heading line after its first line (text followed by a later heading).
C5_SectionsStartAtHeadings ==
    (pc = "markdown" /\ HeadingsAreLines(content)) =>
        \A k \in 1..Len(sections) :
            /\ k > 1 => sections[k][1].c = "#"
            /\ \A i \in 2..Len(sections[k]) : HeadingEnd(sections[k], i) = 0

\* the nodes popped so far that are of a definition kind, in order
VisitedDefs ==
    Keep(visited, {k \in 1..Len(tree) : tree[k].type \in LANG_DEFINITION_NODES(language)}, 1)

\* the text whose UTF-8 encoding is bytes [start_byte, end_byte) of the
\* encoded content: the characters that lie within these offsets
SpanText(s, node) ==
    LET ks == {k \in 1..Len(s) : /\ BytesIn(s, 1, k - 1) >= node.start_byte
                                 /\ BytesIn(s, 1, k) <= node.end_byte}
    IN  IF ks = {} THEN <<>> ELSE SubSeq(s, MinOf(ks), MaxOf(ks))

\* C6: the content of each definition chunk of chunk_code is the source span
\* of its node: the text whose UTF-8 encoding is bytes
\* [start_byte, end_byte) of the parsed input.
C6_ContentIsNodeSpan ==
    pc = "walk" =>
        /\ Len(chunks) = Len(VisitedDefs)
        /\ \A j \in 1..Len(chunks) :
              chunks[j].content = SpanText(content, tree[VisitedDefs[j]])

\* C7: the walk of chunk_code pops the nodes of the tree in document
\* pre-order, each node once, and emits one chunk for every node of a
\* definition kind, nested ones included, in that order, with the node's
\* kind and its first and last line.
C7_OneChunkPerDefinitionInPreOrder ==
    pc = "walk" =>
        /\ visited = SubSeq(PreOrder(tree, 1), 1, Len(visited))
        /\ stack = <<>> =>
              /\ Len(visited) = Len(tree)
              /\ {visited[j] : j \in 1..Len(visited)} = 1..Len(tree)
        /\ Len(chunks) = Len(VisitedDefs)
        /\ \A j \in 1..Len(chunks) :
              LET node == tree[VisitedDefs[j]]
              IN  /\ chunks[j].metadata.node_type = node.type
                  /\ chunks[j].metadata.start_line = node.start_row + 1
                  /\ chunks[j].metadata.end_line = node.end_row + 1

\* C7's case: the walk over the example foo.py has ended with the chunks of
\* a (lines 1-2) and b (lines 4-5), in this order
C7_Witness ==
    /\ pc = "walk"
    /\ stack = <<>>
    /\ content = TwoDefsText
    /\ Len(chunks) = 2
    /\ chunks[1].content = SubSeq(TwoDefsText, 1, 17)
    /\ chunks[1].metadata.start_line = 1 /\ chunks[1].metadata.end_line = 2
    /\ chunks[2].content = SubSeq(TwoDefsText, 20, 36)
    /\ chunks[2].metadata.start_line = 4 /\ chunks[2].metadata.end_line = 5

\* the lines of a text: its line feeds, and one more for a last line without
LineCount(s) ==
    Cardinality({k \in 1..Len(s) : s[k].c = NL})
        + (IF s # <<>> /\ s[Len(s)].c # NL THEN 1 ELSE 0)

\* the number of nodes of a definition kind in the tree of code file f
NumDefs(f) ==
    LET lang == detect_language(f.path)
    IN  Len(DefNodes(Parse(lang, f.content), lang))

\* what C8 says of the chunks cs of code file f, lines being its end_line
FileFallbackRule(f, cs, lines) ==
    IF NumDefs(f) = 0
    THEN /\ Len(cs) = 1
         /\ cs[1].metadata.node_type = "file"
         /\ cs[1].content = f.content
         /\ cs[1].metadata.symbol_name = PathName(f.path)
         /\ cs[1].metadata.start_line = 1
         /\ cs[1].metadata.end_line = lines
    ELSE \A j \in 1..Len(cs) : cs[j].metadata.node_type # "file"

IsMarkdown(f) == detect_language(f.path) = "markdown"

\* the contents of a list of chunks
Contents(cs) == [j \in 1..Len(cs) |-> cs[j].content]

\* the paragraphs of the texts of a list, one after the other
ParasOfAll(texts) == Concat([j \in 1..Len(texts) |-> MdParas(texts[j])], 1)

\* the sections chunk_markdown packs
PackedSections(f) ==
    IF MdSections(f.content) # <<>> THEN MdSections(f.content) ELSE <<f.content>>

\* C9: a chunk of chunk_markdown has at most 400 words unless it is exactly
\* one paragraph; the paragraphs of the sections (the pieces between blank
\* lines) go whole into the chunks, none split, in their order; a chunk of
\* chunk_text has at most 80 lines.
C9_SizeBudgets ==
    pc = "done" =>
        /\ \A a \in 1..Len(all_chunks) :
              LET c == all_chunks[a]
              IN  /\ c.metadata.node_type = "section" =>
                        \/ WordCount(c.content) <= 400
                        \/ Len(MdParas(c.content)) = 1
                  /\ c.metadata.node_type = "block" =>
                        Len(SplitLines(c.content)) <= 80
        /\ \A k \in 1..Len(files) :
              IsMarkdown(files[k]) =>
                  ParasOfAll(Contents(Segment(k))) = ParasOfAll(PackedSections(files[k]))

\* C9's case: a batch has returned with a markdown chunk that is one
\* paragraph of more than 400 words and a text chunk of exactly 80 lines
C9_Witness ==
    /\ pc = "done"
    /\ \E a, b \in 1..Len(all_chunks) :
          /\ all_chunks[a].metadata.node_type = "section"
          /\ WordCount(all_chunks[a].content) > 400
          /\ all_chunks[b].metadata.node_type = "block"
          /\ Len(SplitLines(all_chunks[b].content)) = 80

\* C10 as stated: the words of the contents of the chunks of a markdown
\* file, put end to end, are the words of the file.
C10_WordsOfConcatenation ==
    pc = "done" =>
        \A k \in 1..Len(files) :
            IsMarkdown(files[k]) =>
                Words(Concat(Contents(Segment(k)), 1)) = Words(files[k].content)

\* C10, amended: the words of the contents of the chunks of a markdown file,
\* put end to end with white space between one chunk and the next, are the
\* words of the file: none lost, doubled or out of place.
C10_RoundTrip ==
    pc = "done" =>
        \A k \in 1..Len(files) :
            IsMarkdown(files[k]) =>
                Words(Join(Contents(Segment(k)), S(<<" ">>))) = Words(files[k].content)

\* C10's case: a markdown file with a heading and a section over the budget
\* has been chunked into three chunks or more
C10_Witness ==
    /\ pc = "done"
    /\ \E k \in 1..Len(files) :
          /\ IsMarkdown(files[k])
          /\ Len(MdSections(files[k].content)) >= 2
          /\ Len(Segment(k)) >= 3
          /\ \E j \in 1..Len(Segment(k)) : WordCount(Segment(k)[j].content) > 400

IsText(f) == detect_language(f.path) = "text"

\* the number of 80-line windows of a text: ceil(N / 80) for its N lines
NumWindows(s) == (LineCount(s) + LINES_PER_CHUNK - 1) \div LINES_PER_CHUNK

\* the characters of window w of s, lines 80w+1 .. 80w+80: from after the
\* line feed that ends line 80w to the one that ends line 80w+80
WindowChars(s, w) ==
    LET nls == LineFeedsIn(s, 1, Len(s))
        first == IF w = 0 THEN 1 ELSE nls[LINES_PER_CHUNK * w] + 1
        last == IF LINES_PER_CHUNK * (w + 1) <= Len(nls)
                THEN nls[LINES_PER_CHUNK * (w + 1)] ELSE Len(s)
    IN  first..last

\* the windows of s that hold a character that is not white space
NonBlankWindows(s) ==
    {w \in 0..(NumWindows(s) - 1) : \E p \in WindowChars(s, w) : ~IsSpace(s[p])}

\* C11: chunk_text gives one chunk for each 80-line window that holds a
\* character that is not white space and none for the others: ceil(N/80)
\* less the blank windows; the block_id of a chunk is the index of its
\* window, and the block_ids increase strictly along the list.
C11_OneBlockPerNonBlankWindow ==
    pc = "done" =>
        \A k \in 1..Len(files) :
            IsText(files[k]) =>
                LET s == files[k].content
                    seg == Segment(k)
                    blank == (0..(NumWindows(s) - 1)) \ NonBlankWindows(s)
                IN  /\ Len(seg) = NumWindows(s) - Cardinality(blank)
                    /\ {seg[j].metadata.block_id : j \in 1..Len(seg)} = NonBlankWindows(s)
                    /\ \A j \in 1..Len(seg) : seg[j].metadata.node_type = "block"
                    /\ \A i, j \in 1..Len(seg) :
                          i < j => seg[i].metadata.block_id < seg[j].metadata.block_id

\* C11's case: a text of three windows, the second one blank, has been
\* chunked into the blocks 0 and 2
C11_Witness ==
    /\ pc = "done"
    /\ \E k \in 1..Len(files) :
          /\ IsText(files[k])
          /\ NumWindows(files[k].content) = 3
          /\ Len(Segment(k)) = 2
          /\ Segment(k)[1].metadata.block_id = 0
          /\ Segment(k)[2].metadata.block_id = 2

\* a chunking operation is executing or has executed
Chunking == pc \in {"loop", "markdown", "walk", "done"}

\* C12: chunking never starts without grammars: a chunking operation
\* executes only with the bundle found and a grammar loaded for every code
\* tag; and when no candidate exists as the import starts, the import ends
\* in an error: no grammar is loaded and nothing is ever chunked.
C12_NoChunkingWithoutGrammars ==
    /\ Chunking => (TS_LIB_PATH # "None" /\ TS_LANGS = CodeTags)
    /\ disk = {} => (pc \notin {"load", "ready"} /\ ~Chunking)

=============================================================================
